---- MODULE Spec2Model ----
(***************************************************************************)
(* CAN identifier register codec of the fdcan crate (src/id/internal.rs):  *)
(* IdReg packs a standard (11 bit) or extended (29 bit) identifier, the    *)
(* RTR flag and the XTD flag into one u32, and orders the packed words by  *)
(* bus priority.                                                           *)
(*                                                                         *)
(* A u32 is modelled as the set of its set bit positions (a subset of      *)
(* 0..31), so that bit 31 is representable and the bit operators are the   *)
(* set operators.  Identifier raw values (u16 / u32 below 2^29) are        *)
(* naturals.                                                               *)
(***************************************************************************)
EXTENDS Integers, FiniteSets, Sequences, TLC

VARIABLES src, chain, out, slot, ord, pc

vars == <<src, chain, out, slot, ord, pc>>

(***************************************************************************)
(* u32 arithmetic                                                          *)
(***************************************************************************)
BitPos == 0 .. 31

\* The u32 holding the natural n (n < 2^31).
u32_from(n) == {i \in 0 .. 30 : (n \div (2 ^ i)) % 2 = 1}

\* The natural a u32 holds (bit 31 clear).
Value(w) ==
    LET f[i \in 0 .. 31] == IF i = 31 THEN 0
                            ELSE (IF i \in w THEN 2 ^ i ELSE 0) + f[i + 1]
    IN f[0]

BitAnd(a, b) == a \cap b
BitOr(a, b) == a \cup b
BitNot(a) == BitPos \ a
Shl(a, k) == {i + k : i \in {j \in a : j + k <= 31}}
Shr(a, k) == {i - k : i \in {j \in a : j >= k}}
\* `x as u16`: the low 16 bits.
as_u16(a) == a \cap (0 .. 15)

(***************************************************************************)
(* The identifier value types (crate::id::api, or embedded_can)            *)
(***************************************************************************)
Standard(n) == [kind |-> "Standard", raw |-> n]
Extended(n) == [kind |-> "Extended", raw |-> n]
\* StandardId::new_unchecked / ExtendedId::new_unchecked: no range check.
new_unchecked_standard(n) == Standard(n)
new_unchecked_extended(n) == Extended(n)
\* StandardId::as_raw / ExtendedId::as_raw
as_raw(id) == id.raw
\* ExtendedId::standard_id: the base ID, the upper 11 of the 29 bits.
standard_id(id) == Standard(id.raw \div (2 ^ 18))

(***************************************************************************)
(* IdReg                                                                   *)
(***************************************************************************)
STANDARD_SHIFT == 18
STANDARD_MASK == u32_from(536608768)  \* 0x1FFC0000
EXTENDED_SHIFT == 0
EXTENDED_MASK == u32_from(536870911)  \* 0x1FFFFFFF
XTD_SHIFT == 30
XTD_MASK == Shl(u32_from(1), XTD_SHIFT)
RTR_SHIFT == 29
RTR_MASK == Shl(u32_from(1), RTR_SHIFT)

\* new_standard shifting by EXTENDED_SHIFT instead of STANDARD_SHIFT.
new_standard_unshifted(id) == Shl(u32_from(as_raw(id)), EXTENDED_SHIFT)

new_standard(id) == Shl(u32_from(as_raw(id)), STANDARD_SHIFT)

new_extended(id) ==
    BitOr(Shl(u32_from(as_raw(id)), EXTENDED_SHIFT), Shl(u32_from(1), XTD_SHIFT))

\* as_raw_id masking with STANDARD_MASK instead of EXTENDED_MASK.
as_raw_id_standard_mask(r) == BitAnd(r, STANDARD_MASK)

as_raw_id(r) == BitAnd(r, EXTENDED_MASK)

from_register(id, rtr, xtd) ==
    LET rtrw == IF rtr = "TransmitDataFrame" THEN {}
                ELSE Shl(u32_from(1), RTR_SHIFT)
        xtdw == IF xtd = "StandardId" THEN {}
                ELSE Shl(u32_from(1), XTD_SHIFT)
    IN BitOr(BitOr(id, rtrw), xtdw)

\* with_rtr clearing with the XTD mask instead of the RTR mask.
with_rtr_clears_xtd(r, b) ==
    IF b THEN BitOr(r, Shl(u32_from(1), RTR_SHIFT))
    ELSE BitAnd(r, BitNot(XTD_MASK))

\* with_rtr whose clearing branch keeps the word as it is.
with_rtr_never_clears(r, b) ==
    IF b THEN BitOr(r, Shl(u32_from(1), RTR_SHIFT)) ELSE r

with_rtr(r, b) ==
    IF b THEN BitOr(r, Shl(u32_from(1), RTR_SHIFT))
    ELSE BitAnd(r, BitNot(RTR_MASK))

is_extended(r) == BitAnd(r, XTD_MASK) # {}

is_standard(r) == ~is_extended(r)

rtr(r) == BitAnd(r, RTR_MASK) # {}

\* to_id without the right shift of the standard field.
to_id_unshifted(r) ==
    IF is_extended(r)
    THEN new_unchecked_extended(Value(Shr(BitAnd(r, EXTENDED_MASK), EXTENDED_SHIFT)))
    ELSE new_unchecked_standard(Value(as_u16(BitAnd(r, STANDARD_MASK))))

\* to_id without the masks.
to_id_unmasked(r) ==
    IF is_extended(r)
    THEN new_unchecked_extended(Value(Shr(r, EXTENDED_SHIFT)))
    ELSE new_unchecked_standard(Value(as_u16(Shr(r, STANDARD_SHIFT))))

to_id(r) ==
    IF is_extended(r)
    THEN new_unchecked_extended(Value(Shr(BitAnd(r, EXTENDED_MASK), EXTENDED_SHIFT)))
    ELSE new_unchecked_standard(
             Value(as_u16(Shr(BitAnd(r, STANDARD_MASK), STANDARD_SHIFT))))

\* impl From<Id> for IdReg
IdReg_from(id) ==
    IF id.kind = "Standard" THEN new_standard(id) ELSE new_extended(id)

\* impl From<IdReg> for Id
Id_from(idr) == to_id(idr)

\* impl From<IdReg> for IdType
IdType_from(r) == IF is_standard(r) THEN "StandardId" ELSE "ExtendedId"

\* impl From<IdReg> for RemoteTransmissionRequest
RemoteTransmissionRequest_from(r) ==
    IF rtr(r) THEN "TransmitRemoteFrame" ELSE "TransmitDataFrame"

\* impl From<Id> for IdType (via From<StandardId> / From<ExtendedId>)
IdType_from_Id(id) ==
    IF id.kind = "Standard" THEN "StandardId" ELSE "ExtendedId"

(***************************************************************************)
(* Priority order                                                          *)
(***************************************************************************)
\* core::cmp::Ordering::reverse
reverse(o) ==
    IF o = "Less" THEN "Greater" ELSE IF o = "Greater" THEN "Less" ELSE "Equal"

\* core::cmp::Ordering::then
then(o, p) == IF o = "Equal" THEN p ELSE o

\* Ord::cmp of the unsigned integers
cmp_int(x, y) == IF x < y THEN "Less" ELSE IF x = y THEN "Equal" ELSE "Greater"

\* Ord::cmp of bool (false < true)
cmp_bool(x, y) == cmp_int(IF x THEN 1 ELSE 0, IF y THEN 1 ELSE 0)

\* cmp whose RTR tie-break is not reversed: remote frames before data frames.
cmp_rtr_unreversed(self, other) ==
    LET rtr_ord == cmp_bool(rtr(self), rtr(other))
        id_a == to_id(self)
        id_b == to_id(other)
    IN CASE id_a.kind = "Standard" /\ id_b.kind = "Standard" ->
              then(reverse(cmp_int(as_raw(id_a), as_raw(id_b))), rtr_ord)
         [] id_a.kind = "Extended" /\ id_b.kind = "Extended" ->
              then(reverse(cmp_int(as_raw(id_a), as_raw(id_b))), rtr_ord)
         [] id_a.kind = "Standard" /\ id_b.kind = "Extended" ->
              then(reverse(cmp_int(as_raw(id_a), as_raw(standard_id(id_b)))),
                   "Greater")
         [] id_a.kind = "Extended" /\ id_b.kind = "Standard" ->
              then(reverse(cmp_int(as_raw(standard_id(id_a)), as_raw(id_b))),
                   "Less")

\* cmp whose standard / extended arms lack the reverse().
cmp_cross_unreversed(self, other) ==
    LET rtr_ord == reverse(cmp_bool(rtr(self), rtr(other)))
        id_a == to_id(self)
        id_b == to_id(other)
    IN CASE id_a.kind = "Standard" /\ id_b.kind = "Standard" ->
              then(reverse(cmp_int(as_raw(id_a), as_raw(id_b))), rtr_ord)
         [] id_a.kind = "Extended" /\ id_b.kind = "Extended" ->
              then(reverse(cmp_int(as_raw(id_a), as_raw(id_b))), rtr_ord)
         [] id_a.kind = "Standard" /\ id_b.kind = "Extended" ->
              then(cmp_int(as_raw(id_a), as_raw(standard_id(id_b))),
                   "Greater")
         [] id_a.kind = "Extended" /\ id_b.kind = "Standard" ->
              then(cmp_int(as_raw(standard_id(id_a)), as_raw(id_b)),
                   "Less")

\* cmp whose standard / extended arms break the base ID tie the other way.
cmp_cross_tie_swapped(self, other) ==
    LET rtr_ord == reverse(cmp_bool(rtr(self), rtr(other)))
        id_a == to_id(self)
        id_b == to_id(other)
    IN CASE id_a.kind = "Standard" /\ id_b.kind = "Standard" ->
              then(reverse(cmp_int(as_raw(id_a), as_raw(id_b))), rtr_ord)
         [] id_a.kind = "Extended" /\ id_b.kind = "Extended" ->
              then(reverse(cmp_int(as_raw(id_a), as_raw(id_b))), rtr_ord)
         [] id_a.kind = "Standard" /\ id_b.kind = "Extended" ->
              then(reverse(cmp_int(as_raw(id_a), as_raw(standard_id(id_b)))),
                   "Less")
         [] id_a.kind = "Extended" /\ id_b.kind = "Standard" ->
              then(reverse(cmp_int(as_raw(standard_id(id_a)), as_raw(id_b))),
                   "Greater")

\* impl Ord for IdReg
cmp(self, other) ==
    LET rtr_ord == reverse(cmp_bool(rtr(self), rtr(other)))
        id_a == to_id(self)
        id_b == to_id(other)
    IN CASE id_a.kind = "Standard" /\ id_b.kind = "Standard" ->
              then(reverse(cmp_int(as_raw(id_a), as_raw(id_b))), rtr_ord)
         [] id_a.kind = "Extended" /\ id_b.kind = "Extended" ->
              then(reverse(cmp_int(as_raw(id_a), as_raw(id_b))), rtr_ord)
         [] id_a.kind = "Standard" /\ id_b.kind = "Extended" ->
              then(reverse(cmp_int(as_raw(id_a), as_raw(standard_id(id_b)))),
                   "Greater")
         [] id_a.kind = "Extended" /\ id_b.kind = "Standard" ->
              then(reverse(cmp_int(as_raw(standard_id(id_a)), as_raw(id_b))),
                   "Less")

\* impl PartialOrd for IdReg (Some(self.cmp(other)))
partial_cmp(self, other) == cmp(self, other)

\* #[derive(PartialEq, Eq)] on IdReg(u32): equality of the words
eq(self, other) == self = other

(***************************************************************************)
(* Inputs                                                                  *)
(***************************************************************************)
\* Number of further low-order bit positions (1 .. ExtraBits) the inputs vary.
ExtraBits == 1

\* Bit positions varied in a standard identifier: both ends of the 11 bits.
StdIdBits == {0, 10} \cup (1 .. ExtraBits)
\* Bit positions varied in an extended identifier: both ends of the 29 bits
\* and both sides of the base ID boundary.
ExtIdBits == {0, 17, 18, 28} \cup (1 .. ExtraBits)
\* Bit positions varied in a raw register word: as above, and the bits above
\* the identifier (RTR, XTD, bit 31).
RawBits == {0, 17, 18, 28, 29, 30, 31} \cup (1 .. ExtraBits)

StandardIds ==
    {Standard(Value(b)) : b \in SUBSET StdIdBits}
        \cup {Standard(n) : n \in {256, 512, 1023, 2047}}
ExtendedIds ==
    {Extended(Value(b)) : b \in SUBSET ExtIdBits}
        \cup {Extended(n) : n \in {80, 67108864, 536870911}}
Ids == StandardIds \cup ExtendedIds
Raws == SUBSET RawBits
RtrKinds == {"TransmitDataFrame", "TransmitRemoteFrame"}
IdTypes == {"StandardId", "ExtendedId"}

Calls ==
    {[op |-> "from", id |-> i, raw |-> {}, rtr |-> "TransmitDataFrame",
      xtd |-> "StandardId"] : i \in Ids}
        \cup {[op |-> "from_register", id |-> Standard(0), raw |-> w, rtr |-> r,
               xtd |-> x] : w \in Raws, r \in RtrKinds, x \in IdTypes}

(***************************************************************************)
(* The codec: one register value, built by the constructor call src,       *)
(* passed through with_rtr, and read by the accessors.  chain holds the    *)
(* last three register values (IdReg is Copy: with_rtr returns a new value *)
(* and the receiver stays as it was), out the result of the last accessor  *)
(* call on the newest value.                                               *)
(***************************************************************************)
NoOut == [op |-> "none"]
Slots == {"a", "b", "c"}
NoOrd == [p \in {} |-> "Equal"]

reg == chain[Len(chain)].val

Push(r, via) ==
    LET c == Append(chain, [val |-> r, via |-> via])
    IN IF Len(c) > 3 THEN Tail(c) ELSE c

FromId ==
    /\ chain = <<>>
    /\ src.op = "from"
    /\ chain' = <<[val |-> IdReg_from(src.id), via |-> "ctor"]>>
    /\ UNCHANGED <<src, out, slot, ord, pc>>

FromRegister ==
    /\ chain = <<>>
    /\ src.op = "from_register"
    /\ chain' = <<[val |-> from_register(src.raw, src.rtr, src.xtd), via |-> "ctor"]>>
    /\ UNCHANGED <<src, out, slot, ord, pc>>

WithRtr(b) ==
    /\ chain # <<>>
    /\ chain' = Push(with_rtr(reg, b), IF b THEN "set" ELSE "clear")
    /\ out' = NoOut
    /\ UNCHANGED <<src, slot, ord, pc>>

\* The caller's mirror of the register: the raw identifier bits read with
\* as_raw_id, and the flags kept apart, are put together again.
Reconstruct(r) ==
    /\ chain # <<>>
    /\ src.op = "from"
    /\ out.op = "as_raw_id"
    /\ chain' = Push(from_register(out.val, r, IdType_from_Id(src.id)),
                     IF r = "TransmitRemoteFrame" THEN "mirror_remote"
                     ELSE "mirror_data")
    /\ out' = NoOut
    /\ UNCHANGED <<src, slot, ord, pc>>

Read(op, val) ==
    /\ chain # <<>>
    /\ out' = [op |-> op, val |-> val]
    /\ UNCHANGED <<src, chain, slot, ord, pc>>

ToId == Read("to_id", to_id(reg))
IntoId == Read("into_id", Id_from(reg))
AsRawId == Read("as_raw_id", as_raw_id(reg))
IsExtended == Read("is_extended", is_extended(reg))
IsStandard == Read("is_standard", is_standard(reg))
Rtr == Read("rtr", rtr(reg))
IntoIdType == Read("into_id_type", IdType_from(reg))
IntoRtr == Read("into_rtr", RemoteTransmissionRequest_from(reg))

Init ==
    /\ src \in Calls
    /\ chain = <<>>
    /\ out = NoOut
    /\ slot = [s \in Slots |-> {}]
    /\ ord = NoOrd
    /\ pc = "build"

Next ==
    \/ FromId
    \/ FromRegister
    \/ \E b \in BOOLEAN : WithRtr(b)
    \/ \E r \in RtrKinds : Reconstruct(r)
    \/ ToId
    \/ IntoId
    \/ AsRawId
    \/ IsExtended
    \/ IsStandard
    \/ Rtr
    \/ IntoIdType
    \/ IntoRtr

Spec == Init /\ [][Next]_vars

(***************************************************************************)
(* The order: register values held in slots, each built by a constructor,  *)
(* passed through with_rtr, and then compared with each other.  ord holds  *)
(* what partial_cmp and == gave for every pair of the compared slots.      *)
(***************************************************************************)
\* Raw words of the compared registers: both ends of the base ID, the bit
\* below it and bit 31.
OrdRawBits == {17, 18, 28, 31}

OrdRegs ==
    {IdReg_from(i) : i \in Ids}
        \cup {from_register(w, r, x) :
                  w \in SUBSET OrdRawBits, r \in RtrKinds, x \in IdTypes}

\* The registers of the three-way comparison.
Ids3 == {Standard(0), Standard(1), Extended(0), Extended(1), Extended(262144)}

Regs3 ==
    {IdReg_from(i) : i \in Ids3}
        \cup {from_register(w, "TransmitDataFrame", x) :
                  w \in SUBSET {0, 18}, x \in IdTypes}

Pair == {"a", "b"}

SlotWithRtr(x, b) ==
    /\ slot' = [slot EXCEPT ![x] = with_rtr(slot[x], b)]
    /\ ord' = NoOrd
    /\ pc' = "build"
    /\ UNCHANGED <<src, chain, out>>

Compare(S) ==
    /\ pc = "build"
    /\ ord' = [p \in S \X S |->
                  [cmp |-> partial_cmp(slot[p[1]], slot[p[2]]),
                   eq |-> eq(slot[p[1]], slot[p[2]])]]
    /\ pc' = "compared"
    /\ UNCHANGED <<src, chain, out, slot>>

InitOrd(S, regs) ==
    /\ src = CHOOSE c \in Calls : c.op = "from" /\ c.id = Standard(0)
    /\ chain = <<>>
    /\ out = NoOut
    /\ slot \in {f \in [Slots -> regs] : \A s \in Slots \ S : f[s] = {}}
    /\ ord = NoOrd
    /\ pc = "build"

NextOrd ==
    \/ \E x \in Pair, b \in BOOLEAN : SlotWithRtr(x, b)
    \/ Compare(Pair)

SpecOrd == InitOrd(Pair, OrdRegs) /\ [][NextOrd]_vars

NextOrd3 ==
    \/ \E x \in Slots, b \in BOOLEAN : SlotWithRtr(x, b)
    \/ Compare(Slots)

SpecOrd3 == InitOrd(Slots, Regs3) /\ [][NextOrd3]_vars

(***************************************************************************)
(* The register layout as the hardware defines it, stated apart from the   *)
(* code: the number held by bits lo .. hi of a word.                       *)
(***************************************************************************)
Field(w, lo, hi) ==
    LET f[i \in lo .. hi + 1] ==
            IF i > hi THEN 0 ELSE (IF i \in w THEN 2 ^ (i - lo) ELSE 0) + f[i + 1]
    IN f[lo]

\* The newest register value is the one the constructor call src returned.
Fresh == Len(chain) = 1 /\ chain[1].via = "ctor"

(***************************************************************************)
(* C1: packing a valid standard or extended identifier into a register and *)
(* extracting it again (to_id, or Id::from) gives the same identifier:     *)
(* same kind, same value.                                                  *)
(***************************************************************************)
RoundTrip ==
    (Fresh /\ src.op = "from" /\ out.op \in {"to_id", "into_id"})
        => out.val = src.id

RoundTripWitness ==
    /\ Fresh
    /\ src.op = "from"
    /\ src.id = Extended(536870911)
    /\ out.op = "to_id"
    /\ out.val = Extended(536870911)

(***************************************************************************)
(* C6, as claimed: for every register value r, r.with_rtr(true)            *)
(* .with_rtr(false) has the 32-bit pattern of r.                           *)
(***************************************************************************)
SetThenClear ==
    Len(chain) = 3 /\ chain[2].via = "set" /\ chain[3].via = "clear"

SetThenClearRestores == SetThenClear => chain[3].val = chain[1].val

(***************************************************************************)
(* C6, amended: r.with_rtr(true).with_rtr(false) has the 32-bit pattern of *)
(* r with bit 29 (RTR) cleared; it is the pattern of r exactly when the    *)
(* RTR bit of r is clear.                                                  *)
(***************************************************************************)
SetThenClearClearsRtr ==
    SetThenClear =>
        /\ chain[3].val = chain[1].val \ {29}
        /\ (chain[3].val = chain[1].val) <=> (29 \notin chain[1].val)

SetThenClearWitness ==
    /\ SetThenClear
    /\ 29 \notin chain[1].val
    /\ 0 \in chain[1].val
    /\ chain[3].val = chain[1].val

(***************************************************************************)
(* C7: with_rtr(b) touches bit 29 only: the result's rtr() is b, every     *)
(* other bit is the receiver's, so to_id(), is_extended() and as_raw_id()  *)
(* give what they give on the receiver; with_rtr(b) twice is with_rtr(b)   *)
(* once.                                                                   *)
(***************************************************************************)
ByWithRtr == Len(chain) >= 2 /\ chain[Len(chain)].via \in {"set", "clear"}

WithRtrOnlyRtr ==
    ByWithRtr =>
        LET n == Len(chain)
            r == chain[n - 1].val
            b == chain[n].via = "set"
        IN /\ (29 \in chain[n].val) <=> b
           /\ chain[n].val \ {29} = r \ {29}
           /\ out.op = "rtr" => out.val = b
           /\ out.op = "to_id" => out.val = to_id(r)
           /\ out.op = "is_extended" => out.val = is_extended(r)
           /\ out.op = "as_raw_id" => out.val = as_raw_id(r)
           /\ (n = 3 /\ chain[2].via = chain[3].via) => chain[3].val = chain[2].val

WithRtrWitness ==
    /\ Len(chain) = 3
    /\ chain[1].val = {0, 18, 29, 30, 31}
    /\ chain[2].via = "clear"
    /\ chain[3].via = "clear"
    /\ chain[3].val = {0, 18, 30, 31}
    /\ out.op = "to_id"

(***************************************************************************)
(* C8, as claimed: for every raw word and every RTR / XTD indicator,       *)
(* from_register(raw, rtr, xtd).to_id() is an identifier of the kind xtd   *)
(* names, its value raw's active field for xtd (bits 18-28 shifted right   *)
(* by 18, or bits 0-28), hence in range; rtr() and is_extended() are the   *)
(* indicators passed in.                                                   *)
(***************************************************************************)
ByFromRegister == Fresh /\ src.op = "from_register"

ActiveField(raw, extended) ==
    IF extended THEN Extended(Field(raw, 0, 28)) ELSE Standard(Field(raw, 18, 28))

InRange(id) ==
    IF id.kind = "Standard" THEN id.raw \in 0 .. 2047
    ELSE id.raw \in 0 .. 536870911

FromRegisterMasked ==
    ByFromRegister =>
        /\ out.op = "to_id" =>
               /\ out.val = ActiveField(src.raw, src.xtd = "ExtendedId")
               /\ InRange(out.val)
        /\ out.op = "rtr" => out.val = (src.rtr = "TransmitRemoteFrame")
        /\ out.op = "is_extended" => out.val = (src.xtd = "ExtendedId")

(***************************************************************************)
(* C8, amended: from_register does not mask raw, so bits 29 and 30 of raw  *)
(* are flags too: the result's rtr() is true iff the rtr indicator is      *)
(* TransmitRemoteFrame or raw has bit 29 set, its is_extended() is true    *)
(* iff the xtd indicator is ExtendedId or raw has bit 30 set, and to_id()  *)
(* is the identifier of that kind whose value is raw's active field for    *)
(* that kind, in range whatever raw holds in bits 0-17 and in bit 31.  For *)
(* a raw word with bits 29 and 30 clear the kind and the flags are the     *)
(* indicators passed in.                                                   *)
(***************************************************************************)
FromRegisterMaskedFlags ==
    ByFromRegister =>
        LET remote == src.rtr = "TransmitRemoteFrame" \/ 29 \in src.raw
            extended == src.xtd = "ExtendedId" \/ 30 \in src.raw
        IN /\ out.op = "to_id" =>
                  /\ out.val = ActiveField(src.raw, extended)
                  /\ InRange(out.val)
           /\ out.op = "rtr" => out.val = remote
           /\ out.op = "is_extended" => out.val = extended

FromRegisterWitness ==
    /\ ByFromRegister
    /\ src.raw = {0, 17, 18, 31}
    /\ src.xtd = "StandardId"
    /\ src.rtr = "TransmitRemoteFrame"
    /\ out.op = "to_id"
    /\ out.val = Standard(1)

(***************************************************************************)
(* C9: for every valid identifier id and every RTR indicator,              *)
(* from_register(IdReg::from(id).as_raw_id(), rtr, IdType::from(id)) is    *)
(* bit for bit IdReg::from(id).with_rtr(rtr is TransmitRemoteFrame), and   *)
(* its to_id() is id.                                                      *)
(***************************************************************************)
Reconstructed ==
    /\ Len(chain) = 2
    /\ chain[1].via = "ctor"
    /\ chain[2].via \in {"mirror_data", "mirror_remote"}

ReconstructionIsConstruction ==
    Reconstructed =>
        /\ chain[2].val = with_rtr(chain[1].val, chain[2].via = "mirror_remote")
        /\ out.op = "to_id" => out.val = src.id

ReconstructionWitness ==
    /\ Reconstructed
    /\ src.id = Extended(536870911)
    /\ chain[2].via = "mirror_remote"
    /\ chain[2].val = 0 .. 30
    /\ out.op = "to_id"

(***************************************************************************)
(* C10: the register built from the standard identifier s is the word      *)
(* s << 18 (bits 18-28 hold s, bits 0-17, 29, 30 and 31 are 0) and its     *)
(* as_raw_id() is s << 18, not s; the register built from the extended     *)
(* identifier e is e | (1 << 30) (bits 0-28 hold e, XTD set, RTR and bit   *)
(* 31 clear) and its as_raw_id() is e.                                     *)
(***************************************************************************)
RegisterLayout ==
    (Fresh /\ src.op = "from") =>
        LET w == chain[1].val
            n == src.id.raw
        IN IF src.id.kind = "Standard"
           THEN /\ w \subseteq 18 .. 28
                /\ Field(w, 18, 28) = n
                /\ out.op = "as_raw_id" =>
                       (31 \notin out.val /\ Field(out.val, 0, 30) = n * (2 ^ 18))
           ELSE /\ w \ (0 .. 28) = {30}
                /\ Field(w, 0, 28) = n
                /\ out.op = "as_raw_id" =>
                       (31 \notin out.val /\ Field(out.val, 0, 30) = n)

RegisterLayoutWitness ==
    /\ Fresh
    /\ src.op = "from"
    /\ src.id = Standard(2047)
    /\ chain[1].val = 18 .. 28
    /\ out.op = "as_raw_id"
    /\ out.val = 18 .. 28

(***************************************************************************)
(* The order as the claims state it.  lt, gt are PartialOrd's a < b and    *)
(* a > b (partial_cmp is Some(Less), Some(Greater)); the identifier of a   *)
(* register is read off the layout.                                        *)
(***************************************************************************)
Lt(x, y) == ord[<<x, y>>].cmp = "Less"
Gt(x, y) == ord[<<x, y>>].cmp = "Greater"
Eq(x, y) == ord[<<x, y>>].eq

ExactlyOne(p, q, r) == (p /\ ~q /\ ~r) \/ (~p /\ q /\ ~r) \/ (~p /\ ~q /\ r)

IsExt(w) == 30 \in w
IsRemote(w) == 29 \in w
IdOf(w) == IF IsExt(w) THEN Field(w, 0, 28) ELSE Field(w, 18, 28)

(***************************************************************************)
(* C2, as claimed: the order of the register values the constructors give  *)
(* is a strict total order: for all a, b exactly one of a < b, a == b      *)
(* (equality of the 32-bit words), a > b holds, and a < b with b < c       *)
(* implies a < c.                                                          *)
(***************************************************************************)
StrictTotalOrder ==
    (pc = "compared" /\ DOMAIN ord = Slots \X Slots) =>
        /\ \A x, y \in Slots : ExactlyOne(Lt(x, y), Eq(x, y), Gt(x, y))
        /\ \A x, y, z \in Slots : (Lt(x, y) /\ Lt(y, z)) => Lt(x, z)

(***************************************************************************)
(* C3: a standard register S (identifier s) against an extended register E *)
(* (identifier e, base ID e >> 18), whatever their RTR flags: S.cmp(E) is  *)
(* Greater when s <= base ID and Less when s > base ID, never Equal, and   *)
(* E.cmp(S) is the reverse.                                                *)
(***************************************************************************)
CrossTypePriority ==
    pc = "compared" =>
        \A x, y \in Pair :
            (~IsExt(slot[x]) /\ IsExt(slot[y])) =>
                LET s == IdOf(slot[x])
                    base == IdOf(slot[y]) \div (2 ^ 18)
                IN /\ ord[<<x, y>>].cmp = (IF s <= base THEN "Greater" ELSE "Less")
                   /\ ord[<<y, x>>].cmp = (IF s <= base THEN "Less" ELSE "Greater")

CrossTypeWitness ==
    /\ pc = "compared"
    /\ slot["a"] = {18, 29}
    /\ slot["b"] = {0, 18, 30}
    /\ ord[<<"a", "b">>].cmp = "Greater"
    /\ ord[<<"b", "a">>].cmp = "Less"

(***************************************************************************)
(* C4: two registers of the same identifier type: with different           *)
(* identifiers the smaller identifier compares Greater whatever the RTR    *)
(* flags; with equal identifiers the data frame compares Greater than the  *)
(* remote frame, and cmp is Equal exactly when the RTR flags match too.    *)
(***************************************************************************)
SameTypePriority ==
    pc = "compared" =>
        \A x, y \in Pair :
            (IsExt(slot[x]) = IsExt(slot[y])) =>
                LET i == IdOf(slot[x])
                    j == IdOf(slot[y])
                    c == ord[<<x, y>>].cmp
                IN /\ i < j => c = "Greater"
                   /\ i > j => c = "Less"
                   /\ (i = j /\ ~IsRemote(slot[x]) /\ IsRemote(slot[y])) => c = "Greater"
                   /\ (i = j /\ IsRemote(slot[x]) /\ ~IsRemote(slot[y])) => c = "Less"
                   /\ c = "Equal" <=> (i = j /\ IsRemote(slot[x]) = IsRemote(slot[y]))

SameTypeWitness ==
    /\ pc = "compared"
    /\ slot["a"] = {18, 29}
    /\ slot["b"] = {18, 28}
    /\ ord[<<"a", "b">>].cmp = "Greater"
    /\ ord[<<"b", "a">>].cmp = "Less"

(***************************************************************************)
(* C5, as claimed: the register of Standard(0x3FF) ranks higher than the   *)
(* register of Extended(0x50), both data frames.                           *)
(***************************************************************************)
Scenario ==
    /\ pc = "compared"
    /\ slot["a"] = IdReg_from(Standard(1023))
    /\ slot["b"] = IdReg_from(Extended(80))

StandardOutranksExtended ==
    Scenario => (Gt("a", "b") /\ Lt("b", "a"))

(***************************************************************************)
(* C5, amended: the base ID of Extended(0x50) is 0x50 >> 18 = 0, which is  *)
(* below 0x3FF, so the register of Extended(0x50) ranks higher than the    *)
(* register of Standard(0x3FF): IdReg::from(Standard(0x3FF)) <             *)
(* IdReg::from(Extended(0x50)).                                            *)
(***************************************************************************)
ExtendedOutranksStandard ==
    Scenario => (Lt("a", "b") /\ Gt("b", "a"))

ScenarioWitness ==
    /\ Scenario
    /\ slot["a"] = 18 .. 27
    /\ slot["b"] = {4, 6, 30}
    /\ ord[<<"a", "b">>].cmp = "Less"

====
